---- MODULE Spec2Model ----
(***************************************************************************)
(* The versioned artifact store of temporal-workflow-cli: the MinIO bucket *)
(* and the CLI commands deploy, rollback and delete that read and write    *)
(* it.  One object-store request is one atomic step; a command is a short  *)
(* sequence of such steps and may be interrupted, or fail, between any two *)
(* of them.                                                                *)
(***************************************************************************)
EXTENDS Integers, Sequences, FiniteSets, TLC

(***************************************************************************)
(* Bounds and input domains                                                *)
(***************************************************************************)

\* Number of CLI invocations in one behaviour.
MaxInvocations == 3

\* Characters are numbers ordered like UTF-16 code units; SP is a white
\* space character (what String.prototype.trim removes).
SP == 0

Procs == {1, 2}

\* The invocations of Spec run one at a time, all on process 1.
SeqProcs == {1}

Workflows == {"orders"}

\* Version identifiers a user can pass with --version: "1", "1 " (blank
\* padded) and "2"; in descending order "2", "1 ", "1".
VersionIds == {<<1>>, <<1, SP>>, <<2>>}

Bundles == {"B1", "B2"}

(***************************************************************************)
(* Optional values (null | value)                                          *)
(***************************************************************************)

Null == <<>>

Some(v) == <<v>>

(***************************************************************************)
(* Strings                                                                 *)
(***************************************************************************)

RECURSIVE TrimStart(_)
TrimStart(s) ==
  IF s # <<>> /\ Head(s) = SP THEN TrimStart(Tail(s)) ELSE s

RECURSIVE TrimEnd(_)
TrimEnd(s) ==
  IF s # <<>> /\ s[Len(s)] = SP THEN TrimEnd(SubSeq(s, 1, Len(s) - 1)) ELSE s

\* String.prototype.trim
Trim(s) == TrimEnd(TrimStart(s))

\* a < b in the order Array.prototype.sort uses by default (code units).
RECURSIVE LexLess(_, _)
LexLess(a, b) ==
  IF a = <<>> THEN b # <<>>
  ELSE IF b = <<>> THEN FALSE
  ELSE IF Head(a) # Head(b) THEN Head(a) < Head(b)
  ELSE LexLess(Tail(a), Tail(b))

Greatest(S) == CHOOSE x \in S : \A y \in S \ {x} : LexLess(y, x)

\* versions.sort().reverse() of the distinct prefixes S
RECURSIVE SortReverse(_)
SortReverse(S) ==
  IF S = {} THEN <<>>
  ELSE LET g == Greatest(S) IN <<g>> \o SortReverse(S \ {g})

Includes(seq, x) == \E i \in 1..Len(seq) : seq[i] = x

\* Array.prototype.indexOf, 1-based; 0 stands for -1.
IndexOf(seq, x) ==
  IF Includes(seq, x)
  THEN CHOOSE i \in 1..Len(seq) : seq[i] = x /\ \A j \in 1..(i - 1) : seq[j] # x
  ELSE 0

Filter(seq, x) == SelectSeq(seq, LAMBDA v : v # x)

(***************************************************************************)
(* Object keys and the bucket                                              *)
(***************************************************************************)

LatestKey(w) == <<w, "latest">>

BundleKey(w, v) == <<w, v, "bundle.zip">>

MetadataKey(w, v) == <<w, v, "metadata.json">>

\* client.putObject / client.fPutObject
PutObject(s, k, v) == [x \in (DOMAIN s) \cup {k} |-> IF x = k THEN v ELSE s[x]]

\* client.removeObject
RemoveObject(s, k) == [x \in (DOMAIN s) \ {k} |-> s[x]]

EmptyBucket == [x \in {} |-> Null]

\* The character "/" of the key layout; no name and no version identifier
\* of this model holds it.
Slash == 9

\* The text of a name: "orders2" is "orders" followed by "2"; every other
\* name is written as one character of its own.
Text(n) ==
  CASE n = "orders" -> <<10>>
    [] n = "orders2" -> <<10, 2>>
    [] n = "latest" -> <<20>>
    [] n = "bundle.zip" -> <<21>>
    [] n = "metadata.json" -> <<22>>

\* The key as the object store holds it: `${workflowName}/latest` or
\* `${workflowName}/${version}/<file>`.
KeyString(k) ==
  Text(k[1]) \o <<Slash>>
    \o (IF Len(k) = 2 THEN Text(k[2]) ELSE k[2] \o <<Slash>> \o Text(k[3]))

\* String.prototype.startsWith: what a listing by prefix selects.
StartsWith(s, prefix) == Len(prefix) <= Len(s) /\ SubSeq(s, 1, Len(prefix)) = prefix

\* `${workflowName}/`
WorkflowPrefix(w) == Text(w) \o <<Slash>>

\* `${workflowName}/${version}/`
VersionPrefix(w, v) == Text(w) \o <<Slash>> \o v \o <<Slash>>

\* The keys S in the order a listing reports them (ascending).
RECURSIVE InKeyOrder(_)
InKeyOrder(S) ==
  IF S = {} THEN <<>>
  ELSE LET k == CHOOSE x \in S : \A y \in S \ {x} : LexLess(KeyString(x), KeyString(y))
       IN <<k>> \o InKeyOrder(S \ {k})

(***************************************************************************)
(* Reads of the bucket (services/minio)                                    *)
(***************************************************************************)

\* The common prefixes client.listObjects(bucket, w + "/", false) reports,
\* with `${w}/` and the closing "/" taken off: one per path segment after
\* `${w}/` under which an object lies.  The pointer w/latest is an object
\* of the listing, not a prefix.
CommonPrefixes(s, w) ==
  {k[2] : k \in {x \in DOMAIN s : Len(x) = 3 /\ StartsWith(KeyString(x), WorkflowPrefix(w))}}

\* listVersions keeping the prefix named "latest".
listVersions_latestKept(s, w) ==
  SortReverse({version \in CommonPrefixes(s, w) : version # <<>>})

\* The prefixes but "latest" and "", sorted and reversed.
listVersions(s, w) ==
  SortReverse({version \in CommonPrefixes(s, w) : version # Text("latest") /\ version # <<>>})

\* getLatestVersion without the trim of what was read.
getLatestVersion_untrimmed(s, w) ==
  IF LatestKey(w) \in DOMAIN s THEN Some(s[LatestKey(w)]) ELSE Null

\* The object is read and trimmed; a missing object reads as null.
getLatestVersion(s, w) ==
  IF LatestKey(w) \in DOMAIN s THEN Some(Trim(s[LatestKey(w)])) ELSE Null

\* What a call of getLatestVersion can return: getObject's rejection, for
\* a missing key or for a transport error alike, is caught and gives null.
getLatestVersionResults(s, w) == {getLatestVersion(s, w), Null}

\* JSON.stringify of a trigger config, an object given as the set of its
\* <<key, value>> properties: a property whose value is undefined is left
\* out and NaN is written as null.
StringifyConfig(c) ==
  {<<e[1], IF e[2] = "NaN" THEN "null" ELSE e[2]>> : e \in {x \in c : x[2] # "undefined"}}

\* JSON.stringify(trigger): config is left out when it is undefined.
StringifyTrigger(tr) ==
  <<<<"type", tr.type>>>>
    \o (IF tr.config = Null THEN <<>> ELSE <<<<"config", StringifyConfig(tr.config[1])>>>>)

\* JSON.stringify(enrichedMetadata, null, 2): the document as the sequence
\* of its <<name, value>> members, in the object's property order.
JSONStringify(m) ==
  << <<"name", m.name>>, <<"version", m.version>>, <<"namespace", m.namespace>>,
     <<"taskQueue", m.taskQueue>>, <<"trigger", StringifyTrigger(m.trigger)>>,
     <<"deployedAt", m.deployedAt>>, <<"deployedBy", m.deployedBy>>,
     <<"checksum", m.checksum>> >>

HasMember(doc, name) == \E i \in 1..Len(doc) : doc[i][1] = name

Member(doc, name) == doc[CHOOSE i \in 1..Len(doc) : doc[i][1] = name][2]

\* JSON.parse of a metadata document: a member that is missing reads as
\* undefined.
JSONParse(doc) ==
  LET tr == Member(doc, "trigger") IN
  [name |-> Member(doc, "name"),
   version |-> Member(doc, "version"),
   namespace |-> Member(doc, "namespace"),
   taskQueue |-> Member(doc, "taskQueue"),
   trigger |-> [type |-> Member(tr, "type"),
                config |-> IF HasMember(tr, "config") THEN Some(Member(tr, "config")) ELSE Null],
   deployedAt |-> Member(doc, "deployedAt"),
   deployedBy |-> Member(doc, "deployedBy"),
   checksum |-> Member(doc, "checksum")]

getMetadata(s, w, v) ==
  IF MetadataKey(w, v) \in DOMAIN s THEN Some(JSONParse(s[MetadataKey(w, v)])) ELSE Null

\* deleteVersion listing by the prefix `${workflowName}/${version}`, its
\* closing "/" left out.
ObjectsUnder_noClosingSlash(s, w, v) ==
  InKeyOrder({k \in DOMAIN s : StartsWith(KeyString(k), Text(w) \o <<Slash>> \o v)})

\* deleteVersion listing by the prefix `${workflowName}/`.
ObjectsUnder_wholeWorkflow(s, w, v) ==
  InKeyOrder({k \in DOMAIN s : StartsWith(KeyString(k), WorkflowPrefix(w))})

\* The keys client.listObjects(bucket, `${w}/${v}/`, true) reports: every
\* key that starts with the prefix.
ObjectsUnder(s, w, v) ==
  InKeyOrder({k \in DOMAIN s : StartsWith(KeyString(k), VersionPrefix(w, v))})

(***************************************************************************)
(* Packager (services/packager)                                            *)
(***************************************************************************)

\* sha256 of the bundle file: one digest per content.
calculateChecksum(b) == <<"sha256", b>>

\* a || b for optional strings
OrElse(a, b) == IF a # Null THEN a ELSE b

createMetadata(config, version, checksum, now, e) ==
  [name |-> config.name,
   version |-> version,
   namespace |-> config.namespace,
   taskQueue |-> config.taskQueue,
   trigger |-> config.trigger,
   deployedAt |-> now,
   deployedBy |-> OrElse(e.USER, Some("unknown"))[1],
   checksum |-> checksum]

\* user?.email || process.env.USER || process.env.USERNAME || "unknown"
getDeployer(e) == OrElse(e.email, OrElse(e.USER, OrElse(e.USERNAME, Some("unknown"))))[1]

\* { ...metadata, deployedBy: getDeployer() }
enrichedMetadata(m, e) == [m EXCEPT !.deployedBy = getDeployer(e)]

(***************************************************************************)
(* State                                                                   *)
(***************************************************************************)

VARIABLES
  store,    \* the bucket: object key -> content, for the keys that exist
  writer,   \* history: key -> the invocation whose put wrote the content
  clock,    \* invocations started so far; also the time of day
  config,   \* the config the deployed workflow directory exports
  env,      \* logged-in user and the USER / USERNAME environment variables
  pc,       \* per process: the request the running command makes next
  arg,      \* per process: the command line of the running command
  loc,      \* per process: the command's local variables
  outcome,  \* per process: how the last command ended
  pre       \* history: per process, store and writer when the command started

vars == <<store, writer, clock, config, env, pc, arg, loc, outcome, pre>>

DefaultConfig ==
  [name |-> "orders", namespace |-> "default", taskQueue |-> "orders-queue",
   trigger |-> [type |-> "manual", config |-> Null]]

\* Trigger configs a config.ts can export: none, or an object with one
\* property "k" holding a string, NaN or undefined.
TriggerConfigs == {Null} \cup {Some({<<"k", x>>}) : x \in {"s", "NaN", "undefined"}}

Configs ==
  {[DefaultConfig EXCEPT !.trigger = [type |-> ty, config |-> c]] :
     ty \in {"manual", "schedule"}, c \in TriggerConfigs}

DefaultEnv == [email |-> Some("dev@example.com"), USER |-> Some("dev"), USERNAME |-> Null]

Envs ==
  [email : {Null, Some("dev@example.com")}, USER : {Null, Some("dev")},
   USERNAME : {Null, Some("devname")}]

NoArg ==
  [kind |-> "none", wf |-> "orders", version |-> Null, force |-> FALSE,
   bundle |-> "B1", all |-> FALSE, namespace |-> Null, showVersions |-> FALSE]

NoLoc ==
  [id |-> 0, versions |-> <<>>, currentLatest |-> Null, latestVersion |-> Null,
   newVersion |-> Null,
   metadata |-> Null, queue |-> <<>>, objects |-> <<>>, writes |-> <<>>,
   removes |-> <<>>, failedAt |-> "none", targetVersion |-> Null, report |-> <<>>,
   readFirst |-> FALSE]

\* The bucket s after a completed upload, by invocation i, of version v
\* from the default directory with bundle b.
Uploaded(s, v, b, i) ==
  LET w == DefaultConfig.name
      m == createMetadata(DefaultConfig, v, calculateChecksum(b), i, DefaultEnv)
  IN PutObject(PutObject(PutObject(s, BundleKey(w, v), b),
                         MetadataKey(w, v), JSONStringify(enrichedMetadata(m, DefaultEnv))),
               LatestKey(w), v)

\* A bucket earlier invocations (numbered -2, -1, 0) left behind: the
\* completed deploys of "1", "1 " and "2", in that order.
SeedStore == Uploaded(Uploaded(Uploaded(EmptyBucket, <<1>>, "B1", -2), <<1, SP>>, "B1", -1), <<2>>, "B1", 0)

SeedWriter ==
  [k \in DOMAIN SeedStore |->
     IF k = LatestKey(DefaultConfig.name) \/ k[2] = <<2>> THEN 0
     ELSE IF k[2] = <<1, SP>> THEN -1 ELSE -2]

\* The commands start on a new, empty bucket or on the seeded one.
InitWith(c, e) ==
  /\ \/ store = EmptyBucket /\ writer = EmptyBucket
     \/ store = SeedStore /\ writer = SeedWriter
  /\ clock = 0
  /\ config = c
  /\ env = e
  /\ pc = [p \in Procs |-> "idle"]
  /\ arg = [p \in Procs |-> NoArg]
  /\ loc = [p \in Procs |-> NoLoc]
  /\ outcome = [p \in Procs |-> "none"]
  /\ pre = [p \in Procs |-> [store |-> EmptyBucket, writer |-> EmptyBucket]]

Init == InitWith(DefaultConfig, DefaultEnv)

\* A new invocation of the CLI on process p with command line a.
Begin(p, a, first) ==
  /\ pc[p] = "idle"
  /\ clock < MaxInvocations
  /\ clock' = clock + 1
  /\ arg' = [arg EXCEPT ![p] = a]
  /\ loc' = [loc EXCEPT ![p] = [NoLoc EXCEPT !.id = clock + 1]]
  /\ pre' = [pre EXCEPT ![p] = [store |-> store, writer |-> writer]]
  /\ pc' = [pc EXCEPT ![p] = first]
  /\ outcome' = [outcome EXCEPT ![p] = "running"]
  /\ UNCHANGED <<store, writer, config, env>>

\* The command of process p returns (or exits) with result r.
End(p, r) ==
  /\ pc' = [pc EXCEPT ![p] = "idle"]
  /\ outcome' = [outcome EXCEPT ![p] = r]

\* One put by process p, then on to the request at "next".
Put(p, k, v, next) ==
  /\ store' = PutObject(store, k, v)
  /\ writer' = PutObject(writer, k, loc[p].id)
  /\ loc' = [loc EXCEPT ![p].writes = Append(@, k)]
  /\ pc' = [pc EXCEPT ![p] = next]

(***************************************************************************)
(* deploy (commands/deploy) and uploadWorkflow (services/minio)            *)
(***************************************************************************)

\* deploy <path> [--version v] [--force]: the directory is validated, its
\* config loaded and the version fixed (options.version || generateVersion()).
DeployStart(p) ==
  \E v \in VersionIds, f \in BOOLEAN, b \in Bundles :
    Begin(p, [NoArg EXCEPT !.kind = "deploy", !.wf = config.name, !.version = Some(v),
                           !.force = f, !.bundle = b],
          "deploy_getLatest")

\* The check "version already exists"; if it passes, the bundle is made,
\* its checksum taken and the metadata created.
DeployCheck(p) ==
  /\ pc[p] = "deploy_getLatest"
  /\ \E latestVersion \in getLatestVersionResults(store, arg[p].wf) :
       IF latestVersion = arg[p].version /\ ~arg[p].force
       THEN /\ End(p, "exists")
            /\ loc' = [loc EXCEPT ![p].latestVersion = latestVersion]
       ELSE /\ loc' = [loc EXCEPT ![p].latestVersion = latestVersion,
                                  ![p].metadata =
                                    Some(createMetadata(config, arg[p].version[1],
                                                        calculateChecksum(arg[p].bundle),
                                                        loc[p].id, env))]
            /\ pc' = [pc EXCEPT ![p] = "upload_bundle"]
            /\ UNCHANGED outcome
  /\ UNCHANGED <<store, writer, clock, config, env, arg, pre>>

\* uploadWorkflow writing the pointer as its first object.
UploadBundle_pointerFirst(p) ==
  /\ pc[p] = "upload_bundle"
  /\ Put(p, LatestKey(arg[p].wf), arg[p].version[1], "upload_metadata")
  /\ UNCHANGED <<clock, config, env, arg, outcome, pre>>

\* client.fPutObject(bucket, <name>/<version>/bundle.zip, bundlePath)
UploadBundle(p) ==
  /\ pc[p] = "upload_bundle"
  /\ Put(p, BundleKey(arg[p].wf, arg[p].version[1]), arg[p].bundle, "upload_metadata")
  /\ UNCHANGED <<clock, config, env, arg, outcome, pre>>

\* uploadWorkflow serialising metadata where enrichedMetadata is meant.
UploadMetadata_notEnriched(p) ==
  /\ pc[p] = "upload_metadata"
  /\ Put(p, MetadataKey(arg[p].wf, arg[p].version[1]),
         JSONStringify(loc[p].metadata[1]), "upload_latest")
  /\ UNCHANGED <<clock, config, env, arg, outcome, pre>>

\* client.putObject(bucket, <name>/<version>/metadata.json, metadataBuffer)
UploadMetadata(p) ==
  /\ pc[p] = "upload_metadata"
  /\ Put(p, MetadataKey(arg[p].wf, arg[p].version[1]),
         JSONStringify(enrichedMetadata(loc[p].metadata[1], env)), "upload_latest")
  /\ UNCHANGED <<clock, config, env, arg, outcome, pre>>

\* uploadWorkflow moving the pointer only to a version that sorts above
\* the one it holds.
UploadLatest_onlyIfNewer(p) ==
  /\ pc[p] = "upload_latest"
  /\ IF LatestKey(arg[p].wf) \in DOMAIN store
        /\ ~LexLess(store[LatestKey(arg[p].wf)], arg[p].version[1])
     THEN pc' = [pc EXCEPT ![p] = "idle"] /\ UNCHANGED <<store, writer, loc>>
     ELSE Put(p, LatestKey(arg[p].wf), arg[p].version[1], "idle")
  /\ outcome' = [outcome EXCEPT ![p] = "deployed"]
  /\ UNCHANGED <<clock, config, env, arg, pre>>

\* client.putObject(bucket, <name>/latest, Buffer.from(version)); the upload
\* returns and deploy reports success (registration does not touch the bucket).
UploadLatest(p) ==
  /\ pc[p] = "upload_latest"
  /\ Put(p, LatestKey(arg[p].wf), arg[p].version[1], "idle")
  /\ outcome' = [outcome EXCEPT ![p] = "deployed"]
  /\ UNCHANGED <<clock, config, env, arg, pre>>

(***************************************************************************)
(* rollback (commands/rollback)                                            *)
(***************************************************************************)

\* The previous version taken one entry too early: the current one.
PreviousVersion_offByOne(versions, currentLatest) ==
  LET currentIndex == IndexOf(versions, IF currentLatest = Null THEN <<>> ELSE currentLatest[1])
  IN IF currentIndex = 0 \/ currentIndex = Len(versions)
     THEN versions[2]
     ELSE versions[currentIndex]

\* The fall-back taken as the first entry (the newest) of the list.
PreviousVersion_fallbackNewest(versions, currentLatest) ==
  LET currentIndex == IndexOf(versions, IF currentLatest = Null THEN <<>> ELSE currentLatest[1])
  IN IF currentIndex = 0 \/ currentIndex = Len(versions)
     THEN versions[1]
     ELSE versions[currentIndex + 1]

\* The target when no version is named (the "previous version"); versions
\* holds at least two entries here.
PreviousVersion(versions, currentLatest) ==
  LET currentIndex == IndexOf(versions, IF currentLatest = Null THEN <<>> ELSE currentLatest[1])
  IN IF currentIndex = 0 \/ currentIndex = Len(versions)
     THEN versions[2]
     ELSE versions[currentIndex + 1]

\* rollback <workflow> [--version v]
RollbackStart(p) ==
  \E w \in Workflows, t \in {Null} \cup {Some(v) : v \in VersionIds} :
    Begin(p, [NoArg EXCEPT !.kind = "rollback", !.wf = w, !.version = t], "rollback_list")

\* versions = await listVersions(workflowName)
RollbackList(p) ==
  /\ pc[p] = "rollback_list"
  /\ loc' = [loc EXCEPT ![p].versions = listVersions(store, arg[p].wf)]
  /\ pc' = [pc EXCEPT ![p] = "rollback_getLatest"]
  /\ UNCHANGED <<store, writer, clock, config, env, arg, outcome, pre>>

\* rollback taking a named target without looking for it in the list.
RollbackDecide_targetNotChecked(p) ==
  /\ pc[p] = "rollback_getLatest"
  /\ \E currentLatest \in getLatestVersionResults(store, arg[p].wf) :
       LET versions == loc[p].versions
           targetVersion == arg[p].version
           newVersion == IF targetVersion # Null THEN targetVersion[1]
                         ELSE PreviousVersion(versions, currentLatest)
           l == [loc[p] EXCEPT !.currentLatest = currentLatest]
       IN IF Len(versions) = 0
          THEN loc' = [loc EXCEPT ![p] = l] /\ End(p, "no versions")
          ELSE IF Len(versions) = 1
          THEN loc' = [loc EXCEPT ![p] = l] /\ End(p, "only one version")
          ELSE IF Some(newVersion) = currentLatest
          THEN /\ loc' = [loc EXCEPT ![p] = [l EXCEPT !.newVersion = Some(newVersion)]]
               /\ End(p, "already latest")
          ELSE /\ loc' = [loc EXCEPT ![p] = [l EXCEPT !.newVersion = Some(newVersion)]]
               /\ pc' = [pc EXCEPT ![p] = "rollback_setLatest"]
               /\ UNCHANGED outcome
  /\ UNCHANGED <<store, writer, clock, config, env, arg, pre>>

\* currentLatest = await getLatestVersion(workflowName), then the checks
\* and the choice of newVersion, up to the call of setLatestVersion.
RollbackDecide(p) ==
  /\ pc[p] = "rollback_getLatest"
  /\ \E currentLatest \in getLatestVersionResults(store, arg[p].wf) :
       LET versions == loc[p].versions
           targetVersion == arg[p].version
           newVersion == IF targetVersion # Null THEN targetVersion[1]
                         ELSE PreviousVersion(versions, currentLatest)
           l == [loc[p] EXCEPT !.currentLatest = currentLatest]
       IN IF Len(versions) = 0
          THEN loc' = [loc EXCEPT ![p] = l] /\ End(p, "no versions")
          ELSE IF Len(versions) = 1
          THEN loc' = [loc EXCEPT ![p] = l] /\ End(p, "only one version")
          ELSE IF targetVersion # Null /\ ~Includes(versions, targetVersion[1])
          THEN loc' = [loc EXCEPT ![p] = l] /\ End(p, "not found")
          ELSE IF Some(newVersion) = currentLatest
          THEN /\ loc' = [loc EXCEPT ![p] = [l EXCEPT !.newVersion = Some(newVersion)]]
               /\ End(p, "already latest")
          ELSE /\ loc' = [loc EXCEPT ![p] = [l EXCEPT !.newVersion = Some(newVersion)]]
               /\ pc' = [pc EXCEPT ![p] = "rollback_setLatest"]
               /\ UNCHANGED outcome
  /\ UNCHANGED <<store, writer, clock, config, env, arg, pre>>

\* setLatestVersion putting the pointer under the version's prefix, at
\* <name>/<version>/latest.
RollbackSetLatest_keyUnderVersion(p) ==
  /\ pc[p] = "rollback_setLatest"
  /\ Put(p, <<arg[p].wf, loc[p].newVersion[1], "latest">>, loc[p].newVersion[1],
         "rollback_getMetadata")
  /\ UNCHANGED <<clock, config, env, arg, outcome, pre>>

\* await setLatestVersion(workflowName, newVersion)
RollbackSetLatest(p) ==
  /\ pc[p] = "rollback_setLatest"
  /\ Put(p, LatestKey(arg[p].wf), loc[p].newVersion[1], "rollback_getMetadata")
  /\ UNCHANGED <<clock, config, env, arg, outcome, pre>>

\* metadata = await getMetadata(workflowName, newVersion), for the report.
RollbackReport(p) ==
  /\ pc[p] = "rollback_getMetadata"
  /\ loc' = [loc EXCEPT ![p].metadata = getMetadata(store, arg[p].wf, loc[p].newVersion[1])]
  /\ End(p, "rolled back")
  /\ UNCHANGED <<store, writer, clock, config, env, arg, pre>>

(***************************************************************************)
(* delete (commands/delete) and deleteVersion (services/minio)             *)
(***************************************************************************)

\* delete <workflow> [--version v | --all]; --all with --version acts as
\* --all, the branch on options.all being taken first.
DeleteStart(p) ==
  \E w \in Workflows, t \in {Null} \cup {Some(v) : v \in VersionIds}, all \in BOOLEAN :
    /\ all => t = Null
    /\ Begin(p, [NoArg EXCEPT !.kind = "delete", !.wf = w, !.version = t, !.all = all],
             "delete_list")

\* versions = await listVersions(workflowName)
DeleteList(p) ==
  /\ pc[p] = "delete_list"
  /\ loc' = [loc EXCEPT ![p].versions = listVersions(store, arg[p].wf)]
  /\ pc' = [pc EXCEPT ![p] = "delete_getLatest"]
  /\ UNCHANGED <<store, writer, clock, config, env, arg, outcome, pre>>

\* currentLatest = await getLatestVersion(workflowName), then the checks
\* up to the first call of deleteVersion; queue holds the versions whose
\* deleteVersion call is still to return.  History: readFirst records
\* that the command made its two reads before any other process removed
\* an object.
DeleteDecide(p) ==
  /\ pc[p] = "delete_getLatest"
  /\ \E currentLatest \in getLatestVersionResults(store, arg[p].wf) :
       LET versions == loc[p].versions
           l == [loc[p] EXCEPT !.currentLatest = currentLatest,
                               !.readFirst = \A q \in Procs \ {p} : loc[q].removes = <<>>]
       IN IF Len(versions) = 0
          THEN loc' = [loc EXCEPT ![p] = l] /\ End(p, "no versions")
          ELSE IF arg[p].all
          THEN /\ loc' = [loc EXCEPT ![p] = [l EXCEPT !.queue = versions]]
               /\ pc' = [pc EXCEPT ![p] = "deleteVersion_list"]
               /\ UNCHANGED outcome
          ELSE IF arg[p].version # Null
          THEN IF ~Includes(versions, arg[p].version[1])
               THEN loc' = [loc EXCEPT ![p] = l] /\ End(p, "not found")
               ELSE /\ loc' = [loc EXCEPT ![p] = [l EXCEPT !.queue = <<arg[p].version[1]>>]]
                    /\ pc' = [pc EXCEPT ![p] = "deleteVersion_list"]
                    /\ UNCHANGED outcome
          ELSE loc' = [loc EXCEPT ![p] = l] /\ End(p, "specify version or all")
  /\ UNCHANGED <<store, writer, clock, config, env, arg, pre>>

\* The repair of the pointer after every single delete that leaves a
\* version, whichever version the pointer named.
DeleteVersionReturns_alwaysRepairs(p, l) ==
  IF Len(l.queue) > 1
  THEN /\ loc' = [loc EXCEPT ![p] = [l EXCEPT !.queue = Tail(l.queue)]]
       /\ pc' = [pc EXCEPT ![p] = "deleteVersion_list"]
       /\ UNCHANGED outcome
  ELSE IF arg[p].all
  THEN /\ loc' = [loc EXCEPT ![p] = [l EXCEPT !.queue = <<>>]]
       /\ End(p, "deleted all")
  ELSE IF Len(l.versions) > 1
  THEN /\ loc' = [loc EXCEPT ![p] = [l EXCEPT !.queue = <<>>]]
       /\ pc' = [pc EXCEPT ![p] = "delete_setLatest"]
       /\ UNCHANGED outcome
  ELSE /\ loc' = [loc EXCEPT ![p] = [l EXCEPT !.queue = <<>>]]
       /\ End(p, "deleted")

\* deleteVersion has returned for Head(l.queue): the next version of
\* --all, or the end of the command, or the repair of the pointer.
DeleteVersionReturns(p, l) ==
  IF Len(l.queue) > 1
  THEN /\ loc' = [loc EXCEPT ![p] = [l EXCEPT !.queue = Tail(l.queue)]]
       /\ pc' = [pc EXCEPT ![p] = "deleteVersion_list"]
       /\ UNCHANGED outcome
  ELSE IF arg[p].all
  THEN /\ loc' = [loc EXCEPT ![p] = [l EXCEPT !.queue = <<>>]]
       /\ End(p, "deleted all")
  ELSE IF arg[p].version = l.currentLatest /\ Len(l.versions) > 1
  THEN /\ loc' = [loc EXCEPT ![p] = [l EXCEPT !.queue = <<>>]]
       /\ pc' = [pc EXCEPT ![p] = "delete_setLatest"]
       /\ UNCHANGED outcome
  ELSE /\ loc' = [loc EXCEPT ![p] = [l EXCEPT !.queue = <<>>]]
       /\ End(p, "deleted")

\* deleteVersion rejecting when nothing lies under the prefix.
DeleteVersionList_rejectsEmpty(p) ==
  /\ pc[p] = "deleteVersion_list"
  /\ LET objects == ObjectsUnder(store, arg[p].wf, Head(loc[p].queue))
     IN IF objects = <<>>
        THEN End(p, "rejected") /\ UNCHANGED loc
        ELSE /\ loc' = [loc EXCEPT ![p].objects = objects]
             /\ pc' = [pc EXCEPT ![p] = "deleteVersion_remove"]
             /\ UNCHANGED outcome
  /\ UNCHANGED <<store, writer, clock, config, env, arg, pre>>

\* deleteVersion: client.listObjects(bucket, <name>/<version>/, true)
DeleteVersionList(p) ==
  /\ pc[p] = "deleteVersion_list"
  /\ LET objects == ObjectsUnder(store, arg[p].wf, Head(loc[p].queue))
     IN IF objects = <<>>
        THEN DeleteVersionReturns(p, loc[p])
        ELSE /\ loc' = [loc EXCEPT ![p].objects = objects]
             /\ pc' = [pc EXCEPT ![p] = "deleteVersion_remove"]
             /\ UNCHANGED outcome
  /\ UNCHANGED <<store, writer, clock, config, env, arg, pre>>

\* deleteVersion leaving its loop after the first removeObject.
DeleteVersionRemove_firstOnly(p) ==
  /\ pc[p] = "deleteVersion_remove"
  /\ LET obj == Head(loc[p].objects)
         l == [loc[p] EXCEPT !.objects = <<>>, !.removes = Append(@, obj)]
     IN /\ store' = RemoveObject(store, obj)
        /\ writer' = RemoveObject(writer, obj)
        /\ DeleteVersionReturns(p, l)
  /\ UNCHANGED <<clock, config, env, arg, pre>>

\* deleteVersion: one client.removeObject(bucket, obj) of the loop
DeleteVersionRemove(p) ==
  /\ pc[p] = "deleteVersion_remove"
  /\ LET obj == Head(loc[p].objects)
         l == [loc[p] EXCEPT !.objects = Tail(@), !.removes = Append(@, obj)]
     IN /\ store' = RemoveObject(store, obj)
        /\ writer' = RemoveObject(writer, obj)
        /\ IF l.objects = <<>>
           THEN DeleteVersionReturns(p, l)
           ELSE loc' = [loc EXCEPT ![p] = l] /\ UNCHANGED <<pc, outcome>>
  /\ UNCHANGED <<clock, config, env, arg, pre>>

\* The pointer is moved to the first of the versions that remain.
DeleteSetLatest(p) ==
  /\ pc[p] = "delete_setLatest"
  /\ LET remainingVersions == Filter(loc[p].versions, arg[p].version[1])
         newLatest == remainingVersions[1]
     IN Put(p, LatestKey(arg[p].wf), newLatest, "idle")
  /\ outcome' = [outcome EXCEPT ![p] = "deleted, latest updated"]
  /\ UNCHANGED <<clock, config, env, arg, pre>>

\* The command of process p stops before its next request takes effect:
\* the request throws (process.exit(1) in the catch block) or the process
\* is interrupted.
Fail(p) ==
  /\ pc[p] # "idle"
  /\ End(p, "failed")
  /\ loc' = [loc EXCEPT ![p].failedAt = pc[p]]
  /\ UNCHANGED <<store, writer, clock, config, env, arg, pre>>

Next ==
  \E p \in SeqProcs :
    \/ DeployStart(p)
    \/ DeployCheck(p)
    \/ UploadBundle(p)
    \/ UploadMetadata(p)
    \/ UploadLatest(p)
    \/ RollbackStart(p)
    \/ RollbackList(p)
    \/ RollbackDecide(p)
    \/ RollbackSetLatest(p)
    \/ RollbackReport(p)
    \/ DeleteStart(p)
    \/ DeleteList(p)
    \/ DeleteDecide(p)
    \/ DeleteVersionList(p)
    \/ DeleteVersionRemove(p)
    \/ DeleteSetLatest(p)
    \/ Fail(p)

Spec == Init /\ [][Next]_vars

(***************************************************************************)
(* The commands run one at a time, each to completion: no request fails    *)
(* and no command is interrupted.                                          *)
(***************************************************************************)

\* The checks of the three commands, getObject of the pointer rejecting
\* only when the pointer is not there.
DeployCheckCompleted(p) ==
  DeployCheck(p) /\ loc'[p].latestVersion = getLatestVersion(store, arg[p].wf)

RollbackDecideCompleted(p) ==
  RollbackDecide(p) /\ loc'[p].currentLatest = getLatestVersion(store, arg[p].wf)

DeleteDecideCompleted(p) ==
  DeleteDecide(p) /\ loc'[p].currentLatest = getLatestVersion(store, arg[p].wf)

NextCompleted ==
  \E p \in SeqProcs :
    \/ DeployStart(p)
    \/ DeployCheckCompleted(p)
    \/ UploadBundle(p)
    \/ UploadMetadata(p)
    \/ UploadLatest(p)
    \/ RollbackStart(p)
    \/ RollbackList(p)
    \/ RollbackDecideCompleted(p)
    \/ RollbackSetLatest(p)
    \/ RollbackReport(p)
    \/ DeleteStart(p)
    \/ DeleteList(p)
    \/ DeleteDecideCompleted(p)
    \/ DeleteVersionList(p)
    \/ DeleteVersionRemove(p)
    \/ DeleteSetLatest(p)

SpecCompleted == Init /\ [][NextCompleted]_vars

(***************************************************************************)
(* Two invocations of the CLI at the same time, each one deploy or one     *)
(* delete --version on the same workflow, their requests interleaved in    *)
(* any order and every request succeeding.                                 *)
(***************************************************************************)

ConcurrentVersionIds == {<<1>>, <<2>>, <<3>>}

\* The bucket after the completed deploys of "1", "2" and "3", in that
\* order, by the invocations -2, -1 and 0.
ConcurrentSeedStore ==
  Uploaded(Uploaded(Uploaded(EmptyBucket, <<1>>, "B1", -2), <<2>>, "B1", -1), <<3>>, "B1", 0)

ConcurrentSeedWriter ==
  [k \in DOMAIN ConcurrentSeedStore |->
     IF k = LatestKey(DefaultConfig.name) \/ k[2] = <<3>> THEN 0
     ELSE IF k[2] = <<2>> THEN -1 ELSE -2]

InitConcurrent ==
  /\ \/ store = EmptyBucket /\ writer = EmptyBucket
     \/ store = ConcurrentSeedStore /\ writer = ConcurrentSeedWriter
  /\ clock = 0
  /\ config = DefaultConfig
  /\ env = DefaultEnv
  /\ pc = [p \in Procs |-> "idle"]
  /\ arg = [p \in Procs |-> NoArg]
  /\ loc = [p \in Procs |-> NoLoc]
  /\ outcome = [p \in Procs |-> "none"]
  /\ pre = [p \in Procs |-> [store |-> EmptyBucket, writer |-> EmptyBucket]]

\* Invocation p, which has run no command yet, runs deploy.
ConcurrentDeploy(p) ==
  /\ outcome[p] = "none"
  /\ \E v \in ConcurrentVersionIds, f \in BOOLEAN, b \in Bundles :
       Begin(p, [NoArg EXCEPT !.kind = "deploy", !.wf = config.name, !.version = Some(v),
                              !.force = f, !.bundle = b],
             "deploy_getLatest")

\* Invocation p, which has run no command yet, runs delete --version.
ConcurrentDelete(p) ==
  /\ outcome[p] = "none"
  /\ \E w \in Workflows, v \in ConcurrentVersionIds :
       Begin(p, [NoArg EXCEPT !.kind = "delete", !.wf = w, !.version = Some(v)],
             "delete_list")

NextConcurrent ==
  \E p \in Procs :
    \/ ConcurrentDeploy(p)
    \/ DeployCheckCompleted(p)
    \/ UploadBundle(p)
    \/ UploadMetadata(p)
    \/ UploadLatest(p)
    \/ ConcurrentDelete(p)
    \/ DeleteList(p)
    \/ DeleteDecideCompleted(p)
    \/ DeleteVersionList(p)
    \/ DeleteVersionRemove(p)
    \/ DeleteSetLatest(p)

SpecConcurrent == InitConcurrent /\ [][NextConcurrent]_vars

(***************************************************************************)
(* One deploy, over the configs and environments a run can have            *)
(***************************************************************************)

\* Deploys started in one behaviour of SpecMetadata.
MaxMetadataDeploys == 1

InitMetadata == \E c \in Configs, e \in Envs : InitWith(c, e)

NextMetadata ==
  \E p \in SeqProcs :
    \/ clock < MaxMetadataDeploys /\ DeployStart(p)
    \/ DeployCheck(p)
    \/ UploadBundle(p)
    \/ UploadMetadata(p)
    \/ UploadLatest(p)
    \/ Fail(p)

SpecMetadata == InitMetadata /\ [][NextMetadata]_vars

(***************************************************************************)
(* The operations of services/minio, and the reading commands info and    *)
(* list, called one by one on a bucket that earlier commands, completed    *)
(* or interrupted, and other writers of the bucket left behind             *)
(***************************************************************************)

\* Calls in one behaviour of SpecStore.
MaxCalls == 2

StoreWorkflows == {"orders", "orders2"}

\* The common prefixes client.listObjects(bucket, "", false) reports: the
\* first path segment, with its "/", of every key.
RootPrefixes(s) == {WorkflowPrefix(k[1]) : k \in DOMAIN s}

\* obj.prefix.replace(/\/$/, "")
NameOf(prefix) == CHOOSE w \in StoreWorkflows : WorkflowPrefix(w) = prefix

Ascending(S) ==
  LET d == SortReverse(S) IN [i \in 1..Len(d) |-> d[Len(d) + 1 - i]]

\* listWorkflows taking the names from the keys that have a version
\* segment.
listWorkflows_versionedOnly(s) ==
  LET prefixes == Ascending({WorkflowPrefix(k[1]) : k \in {x \in DOMAIN s : Len(x) = 3}})
  IN [i \in 1..Len(prefixes) |-> NameOf(prefixes[i])]

\* The names of the root prefixes, in the order of the listing.
listWorkflows(s) ==
  LET prefixes == Ascending(RootPrefixes(s))
  IN [i \in 1..Len(prefixes) |-> NameOf(prefixes[i])]

\* The content of an object that is no JSON text: the empty text.
NotJSON == <<>>

\* JSON.parse(data) throws a SyntaxError.
JSONParseThrows(data) == data = NotJSON

\* What lies under `${w}/${v}/`: nothing, the two objects of a completed
\* upload, the bundle alone (an upload interrupted after its first put, or
\* a delete after its second remove), or a bundle with a metadata object
\* that is no JSON text.
Shapes == {"none", "complete", "bundle only", "not json"}

WithVersion(s, w, v, shape) ==
  LET m == createMetadata([DefaultConfig EXCEPT !.name = w], v, calculateChecksum("B1"),
                          0, DefaultEnv)
      b == PutObject(s, BundleKey(w, v), "B1")
  IN CASE shape = "none" -> s
       [] shape = "bundle only" -> b
       [] shape = "not json" -> PutObject(b, MetadataKey(w, v), NotJSON)
       [] shape = "complete" ->
            PutObject(b, MetadataKey(w, v), JSONStringify(enrichedMetadata(m, DefaultEnv)))

WithPointer(s, w, ptr) == IF ptr = Null THEN s ELSE PutObject(s, LatestKey(w), ptr[1])

\* The buckets SpecStore starts on.  orders2 holds the completed version
\* "1" and points at it; orders holds the completed version "2", "1" in
\* any shape, "1 " and a version named "latest" completed or not there,
\* and no pointer or one that holds "1 " or "2".
Stores ==
  {WithPointer(
     WithVersion(WithVersion(WithVersion(WithVersion(
       WithPointer(WithVersion(EmptyBucket, "orders2", <<1>>, "complete"), "orders2", Some(<<1>>)),
       "orders", <<2>>, "complete"),
       "orders", <<1>>, s1),
       "orders", <<1, SP>>, s2),
       "orders", Text("latest"), s3),
     "orders", ptr) :
   s1 \in Shapes, s2 \in {"none", "complete"}, s3 \in {"none", "complete"},
   ptr \in {Null, Some(<<1, SP>>), Some(<<2>>)}}

InitStore ==
  /\ store \in Stores
  /\ writer = [k \in DOMAIN store |-> 0]
  /\ clock = 0
  /\ config = DefaultConfig
  /\ env = DefaultEnv
  /\ pc = [p \in Procs |-> "idle"]
  /\ arg = [p \in Procs |-> NoArg]
  /\ loc = [p \in Procs |-> NoLoc]
  /\ outcome = [p \in Procs |-> "none"]
  /\ pre = [p \in Procs |-> [store |-> EmptyBucket, writer |-> EmptyBucket]]

\* Process p calls an operation with arguments a; l holds its local
\* variables, next is its first request ("idle": it has returned
\* already, with result r).
Call(p, a, l, next, r) ==
  /\ pc[p] = "idle"
  /\ clock < MaxCalls
  /\ clock' = clock + 1
  /\ arg' = [arg EXCEPT ![p] = a]
  /\ loc' = [loc EXCEPT ![p] = [l EXCEPT !.id = clock + 1]]
  /\ pre' = [pre EXCEPT ![p] = [store |-> store, writer |-> writer]]
  /\ pc' = [pc EXCEPT ![p] = next]
  /\ outcome' = [outcome EXCEPT ![p] = r]
  /\ UNCHANGED <<store, writer, config, env>>

\* What can happen to the two requests of a read: nothing, getObject
\* rejects, or the stream it resolved to emits "error".
Transports == {"ok", "getObject fails", "stream fails"}

\* deleteVersion(workflowName, version): prefix and objects are set up.
DeleteVersionCall(p) ==
  \E w \in StoreWorkflows, v \in VersionIds :
    Call(p, [NoArg EXCEPT !.kind = "deleteVersion", !.wf = w, !.version = Some(v)],
         [NoLoc EXCEPT !.queue = <<v>>], "deleteVersion_list", "running")

\* getMetadata(workflowName, version).  A rejection of getObject (no such
\* key, or the transport failing) is caught and null returned; an "error"
\* of the stream rejects the promise that was returned; JSON.parse
\* throwing in the listener of "end" is an uncaught exception, and the
\* promise is never settled.
GetMetadataCall(p) ==
  \E w \in StoreWorkflows, v \in VersionIds, tr \in Transports :
    LET k == MetadataKey(w, v)
        a == [NoArg EXCEPT !.kind = "getMetadata", !.wf = w, !.version = Some(v)]
        l == [NoLoc EXCEPT !.failedAt = tr]
    IN /\ tr = "stream fails" => k \in DOMAIN store
       /\ IF tr = "getObject fails" \/ k \notin DOMAIN store
          THEN Call(p, a, l, "idle", "returned")
          ELSE IF tr = "stream fails"
          THEN Call(p, a, l, "idle", "rejected")
          ELSE IF JSONParseThrows(store[k])
          THEN Call(p, a, l, "idle", "uncaught exception")
          ELSE Call(p, a, [l EXCEPT !.metadata = getMetadata(store, w, v)], "idle", "returned")

\* getLatestVersion(workflowName): as getMetadata, the text read being
\* trimmed and not parsed.
GetLatestVersionCall(p) ==
  \E w \in StoreWorkflows, tr \in Transports :
    LET k == LatestKey(w)
        a == [NoArg EXCEPT !.kind = "getLatestVersion", !.wf = w]
        l == [NoLoc EXCEPT !.failedAt = tr]
    IN /\ tr = "stream fails" => k \in DOMAIN store
       /\ IF tr = "getObject fails" \/ k \notin DOMAIN store
          THEN Call(p, a, l, "idle", "returned")
          ELSE IF tr = "stream fails"
          THEN Call(p, a, l, "idle", "rejected")
          ELSE Call(p, a, [l EXCEPT !.currentLatest = getLatestVersion(store, w)],
                    "idle", "returned")

\* listVersions(workflowName): the listing's stream ends, or emits "error".
ListVersionsCall(p) ==
  \E w \in StoreWorkflows, tr \in {"ok", "stream fails"} :
    LET a == [NoArg EXCEPT !.kind = "listVersions", !.wf = w]
        l == [NoLoc EXCEPT !.failedAt = tr]
    IN IF tr = "stream fails"
       THEN Call(p, a, l, "idle", "rejected")
       ELSE Call(p, a, [l EXCEPT !.versions = listVersions(store, w)], "idle", "returned")

(***************************************************************************)
(* info (commands/info) and list (commands/list)                           *)
(***************************************************************************)

\* What a call of getMetadata gives the command that awaits it, the
\* rejection by an "error" of the stream (the command's catch block) left
\* to Fail: null for a key that is not there or a getObject that fails,
\* the parsed document, or the exception JSON.parse throws in the listener.
getMetadataResults(s, w, v) ==
  LET k == MetadataKey(w, v) IN
  IF k \notin DOMAIN s
  THEN {[thrown |-> FALSE, value |-> Null]}
  ELSE {[thrown |-> FALSE, value |-> Null]} \cup
       (IF JSONParseThrows(s[k])
        THEN {[thrown |-> TRUE, value |-> Null]}
        ELSE {[thrown |-> FALSE, value |-> getMetadata(s, w, v)]})

Namespaces == {"default", "other"}

\* info(workflowName, version?)
InfoCall(p) ==
  \E w \in StoreWorkflows, version \in {Null} \cup {Some(v) : v \in VersionIds} :
    Call(p, [NoArg EXCEPT !.kind = "info", !.wf = w, !.version = version],
         NoLoc, "info_getLatest", "running")

\* targetVersion = version || (await getLatestVersion(workflowName))
InfoTarget(p) ==
  /\ pc[p] = "info_getLatest"
  /\ \E targetVersion \in IF arg[p].version # Null THEN {arg[p].version}
                          ELSE getLatestVersionResults(store, arg[p].wf) :
       /\ loc' = [loc EXCEPT ![p].targetVersion = targetVersion]
       /\ IF targetVersion = Null
          THEN End(p, "workflow not found")
          ELSE pc' = [pc EXCEPT ![p] = "info_getMetadata"] /\ UNCHANGED outcome
  /\ UNCHANGED <<store, writer, clock, config, env, arg, pre>>

\* metadata = await getMetadata(workflowName, targetVersion)
InfoGetMetadata(p) ==
  /\ pc[p] = "info_getMetadata"
  /\ \E r \in getMetadataResults(store, arg[p].wf, loc[p].targetVersion[1]) :
       IF r.thrown
       THEN End(p, "uncaught exception") /\ UNCHANGED loc
       ELSE /\ loc' = [loc EXCEPT ![p].metadata = r.value]
            /\ pc' = [pc EXCEPT ![p] = "info_listVersions"]
            /\ UNCHANGED outcome
  /\ UNCHANGED <<store, writer, clock, config, env, arg, pre>>

\* versions = await listVersions(workflowName)
InfoListVersions(p) ==
  /\ pc[p] = "info_listVersions"
  /\ loc' = [loc EXCEPT ![p].versions = listVersions(store, arg[p].wf)]
  /\ pc' = [pc EXCEPT ![p] = "info_getLatestAgain"]
  /\ UNCHANGED <<store, writer, clock, config, env, arg, outcome, pre>>

\* info naming the version in "No metadata found" and going on to print.
InfoReport_printsWithoutMetadata(p) ==
  /\ pc[p] = "info_getLatestAgain"
  /\ \E latestVersion \in getLatestVersionResults(store, arg[p].wf) :
       /\ loc' = [loc EXCEPT ![p].latestVersion = latestVersion,
                             ![p].report = <<[current |-> loc[p].targetVersion[1],
                                              latest |-> loc[p].targetVersion = latestVersion,
                                              metadata |-> loc[p].metadata,
                                              versions |-> loc[p].versions]>>]
       /\ End(p, "reported")
  /\ UNCHANGED <<store, writer, clock, config, env, arg, pre>>

\* latestVersion = await getLatestVersion(workflowName); then "No metadata
\* found for <name>@<targetVersion>", or the details are printed.
InfoReport(p) ==
  /\ pc[p] = "info_getLatestAgain"
  /\ \E latestVersion \in getLatestVersionResults(store, arg[p].wf) :
       IF loc[p].metadata = Null
       THEN /\ loc' = [loc EXCEPT ![p].latestVersion = latestVersion]
            /\ End(p, "no metadata found")
       ELSE /\ loc' = [loc EXCEPT ![p].latestVersion = latestVersion,
                                  ![p].report = <<[current |-> loc[p].targetVersion[1],
                                                   latest |-> loc[p].targetVersion = latestVersion,
                                                   metadata |-> loc[p].metadata,
                                                   versions |-> loc[p].versions]>>]
            /\ End(p, "reported")
  /\ UNCHANGED <<store, writer, clock, config, env, arg, pre>>

\* list(options)
ListCall(p) ==
  \E namespace \in {Null} \cup {Some(n) : n \in Namespaces}, showVersions \in BOOLEAN :
    Call(p, [NoArg EXCEPT !.kind = "list", !.namespace = namespace,
                          !.showVersions = showVersions],
         NoLoc, "list_listWorkflows", "running")

\* workflows = await listWorkflows(); queue holds the workflows the loop
\* has still to visit.
ListListWorkflows(p) ==
  /\ pc[p] = "list_listWorkflows"
  /\ LET workflows == listWorkflows(store)
     IN IF Len(workflows) = 0
        THEN End(p, "no workflows") /\ UNCHANGED loc
        ELSE /\ loc' = [loc EXCEPT ![p].queue = workflows]
             /\ pc' = [pc EXCEPT ![p] = "list_getLatest"]
             /\ UNCHANGED outcome
  /\ UNCHANGED <<store, writer, clock, config, env, arg, pre>>

\* The loop goes on to its next workflow, or the command returns.
ListNext(p, l) ==
  IF Len(l.queue) > 1
  THEN /\ loc' = [loc EXCEPT ![p] = [l EXCEPT !.queue = Tail(l.queue)]]
       /\ pc' = [pc EXCEPT ![p] = "list_getLatest"]
       /\ UNCHANGED outcome
  ELSE /\ loc' = [loc EXCEPT ![p] = [l EXCEPT !.queue = <<>>]]
       /\ End(p, "listed")

\* The namespace filter, the workflow's line and its details; report
\* holds one entry for each workflow the loop has visited, with what was
\* read for it and what was printed.
ListPrint(p, latestVersion, metadata) ==
  LET workflowName == Head(loc[p].queue)
      skipped == /\ arg[p].namespace # Null
                 /\ (metadata = Null \/ metadata[1].namespace # arg[p].namespace[1])
      entry == [name |-> workflowName, latest |-> latestVersion, metadata |-> metadata,
                printed |-> ~skipped, versions |-> Null]
      l == [loc[p] EXCEPT !.latestVersion = latestVersion, !.metadata = metadata,
                          !.report = Append(@, entry)]
  IN IF ~skipped /\ arg[p].showVersions
     THEN /\ loc' = [loc EXCEPT ![p] = l]
          /\ pc' = [pc EXCEPT ![p] = "list_listVersions"]
          /\ UNCHANGED outcome
     ELSE ListNext(p, l)

\* latestVersion = await getLatestVersion(workflowName); with null, the
\* metadata is null and no request is made for it.
ListGetLatest(p) ==
  /\ pc[p] = "list_getLatest"
  /\ \E latestVersion \in getLatestVersionResults(store, Head(loc[p].queue)) :
       IF latestVersion = Null
       THEN ListPrint(p, Null, Null)
       ELSE /\ loc' = [loc EXCEPT ![p].latestVersion = latestVersion]
            /\ pc' = [pc EXCEPT ![p] = "list_getMetadata"]
            /\ UNCHANGED outcome
  /\ UNCHANGED <<store, writer, clock, config, env, arg, pre>>

\* metadata = await getMetadata(workflowName, latestVersion)
ListGetMetadata(p) ==
  /\ pc[p] = "list_getMetadata"
  /\ \E r \in getMetadataResults(store, Head(loc[p].queue), loc[p].latestVersion[1]) :
       IF r.thrown
       THEN End(p, "uncaught exception") /\ UNCHANGED loc
       ELSE ListPrint(p, loc[p].latestVersion, r.value)
  /\ UNCHANGED <<store, writer, clock, config, env, arg, pre>>

\* versions = await listVersions(workflowName), printed if there are any
ListListVersions(p) ==
  /\ pc[p] = "list_listVersions"
  /\ LET n == Len(loc[p].report)
         l == [loc[p] EXCEPT !.report[n].versions =
                               Some(listVersions(store, Head(loc[p].queue)))]
     IN ListNext(p, l)
  /\ UNCHANGED <<store, writer, clock, config, env, arg, pre>>

NextStore ==
  \E p \in SeqProcs :
    \/ DeleteVersionCall(p)
    \/ DeleteVersionList(p)
    \/ DeleteVersionRemove(p)
    \/ GetMetadataCall(p)
    \/ GetLatestVersionCall(p)
    \/ ListVersionsCall(p)
    \/ InfoCall(p)
    \/ InfoTarget(p)
    \/ InfoGetMetadata(p)
    \/ InfoListVersions(p)
    \/ InfoReport(p)
    \/ ListCall(p)
    \/ ListListWorkflows(p)
    \/ ListGetLatest(p)
    \/ ListGetMetadata(p)
    \/ ListListVersions(p)
    \/ Fail(p)

SpecStore == InitStore /\ [][NextStore]_vars

(***************************************************************************)
(* Properties                                                              *)
(***************************************************************************)

\* The pointer object of workflow w in bucket s, as stored.
Pointer(s, w) == IF LatestKey(w) \in DOMAIN s THEN Some(s[LatestKey(w)]) ELSE Null

HasBundle(s, w, v) == BundleKey(w, v) \in DOMAIN s

HasMetadata(s, w, v) == MetadataKey(w, v) \in DOMAIN s

\* The object at key k is in t what it is in s (there or not, and what).
SameObject(s, t, k) ==
  /\ (k \in DOMAIN s) = (k \in DOMAIN t)
  /\ k \in DOMAIN s => s[k] = t[k]

IsPrefixOf(a, b) == Len(a) <= Len(b) /\ a = SubSeq(b, 1, Len(a))

UploadOrder(w, v) == <<BundleKey(w, v), MetadataKey(w, v), LatestKey(w)>>

InUpload(p) == pc[p] \in {"upload_bundle", "upload_metadata", "upload_latest"}

\* The uploads that stopped at one of the three writes.
UploadFailed(p) ==
  /\ arg[p].kind = "deploy"
  /\ outcome[p] = "failed"
  /\ loc[p].failedAt \in {"upload_bundle", "upload_metadata", "upload_latest"}

\* The deploy of process p read the pointer as it was stored (no request
\* of its check failed).
DeployReadPointer(p) == loc[p].latestVersion = getLatestVersion(pre[p].store, arg[p].wf)

\* C1: the objects an upload has written so far are, in order, a prefix of
\* bundle, metadata, pointer; so the pointer is written only after the
\* bundle and the metadata of the same upload.
C1_WriteOrder ==
  \A p \in Procs :
    arg[p].kind = "deploy" =>
      IsPrefixOf(loc[p].writes, UploadOrder(arg[p].wf, arg[p].version[1]))

C1_Witness ==
  \E p \in Procs :
    /\ arg[p].kind = "deploy"
    /\ outcome[p] = "deployed"
    /\ loc[p].writes = UploadOrder(arg[p].wf, arg[p].version[1])

\* C2: while an upload has not made its pointer write, and after it
\* stopped at the bundle write or at the metadata write, the pointer is
\* what it was when the command started.
C2_PointerNotAdvanced ==
  \A p \in Procs :
    \/ arg[p].kind = "deploy" /\ InUpload(p)
    \/ UploadFailed(p) /\ loc[p].failedAt \in {"upload_bundle", "upload_metadata"}
    => Pointer(store, arg[p].wf) = Pointer(pre[p].store, arg[p].wf)

C2_Witness ==
  \E p \in Procs :
    /\ UploadFailed(p)
    /\ loc[p].failedAt = "upload_metadata"
    /\ Pointer(pre[p].store, arg[p].wf) # Null
    /\ Pointer(pre[p].store, arg[p].wf) # arg[p].version

\* The version the stored pointer names has a bundle and a metadata object
\* put by one and the same upload (no pointer: nothing to see).
PointerConsistent(s, wr, w) ==
  LatestKey(w) \in DOMAIN s =>
    LET v == s[LatestKey(w)]
    IN /\ HasBundle(s, w, v)
       /\ HasMetadata(s, w, v)
       /\ wr[BundleKey(w, v)] = wr[MetadataKey(w, v)]

\* C3: at every point of a forced upload of the version the pointer names,
\* started on a consistent pointer, and when it has completed, a reader
\* finds the pointer consistent.
C3_ReaderSeesOneUpload ==
  \A p \in Procs :
    /\ arg[p].kind = "deploy"
    /\ arg[p].force
    /\ Pointer(pre[p].store, arg[p].wf) = arg[p].version
    /\ InUpload(p) \/ outcome[p] = "deployed"
    /\ PointerConsistent(pre[p].store, pre[p].writer, arg[p].wf)
    => PointerConsistent(store, writer, arg[p].wf)

C5_ConflictRefused ==
  \A p \in Procs :
    LET w == arg[p].wf
        v == arg[p].version[1]
    IN /\ arg[p].kind = "deploy"
       /\ ~arg[p].force
       /\ DeployReadPointer(p)
       /\ HasBundle(pre[p].store, w, v) /\ HasMetadata(pre[p].store, w, v)
       /\ Pointer(pre[p].store, w) \notin {Null, arg[p].version}
       => /\ ~InUpload(p)
          /\ outcome[p] # "deployed"
          /\ SameObject(pre[p].store, store, BundleKey(w, v))
          /\ SameObject(pre[p].store, store, MetadataKey(w, v))
          /\ SameObject(pre[p].store, store, LatestKey(w))

\* C6: after an upload stopped at one of its writes (a forced redeploy, or
\* the upload of a version that had no object), the bundle and the
\* metadata of every version that had both when the command started, and
\* the pointer, are what they were then.
C6_FailedUploadTouchesNothing ==
  \A p \in Procs :
    /\ UploadFailed(p)
    /\ DeployReadPointer(p)
    /\ arg[p].force \/ ObjectsUnder(pre[p].store, arg[p].wf, arg[p].version[1]) = <<>>
    =>
      /\ SameObject(pre[p].store, store, LatestKey(arg[p].wf))
      /\ \A v \in VersionIds :
           HasBundle(pre[p].store, arg[p].wf, v) /\ HasMetadata(pre[p].store, arg[p].wf, v)
           => /\ SameObject(pre[p].store, store, BundleKey(arg[p].wf, v))
              /\ SameObject(pre[p].store, store, MetadataKey(arg[p].wf, v))

\* JSON represents the trigger config c as it is.
JSONExact(c) == c = Null \/ StringifyConfig(c[1]) = c[1]

\* C7 as claimed: after a completed upload getMetadata returns the record
\* the upload was given (for a trigger config JSON represents as it is).
C7_MetadataRoundTrip ==
  \A p \in Procs :
    arg[p].kind = "deploy" /\ outcome[p] = "deployed" /\ JSONExact(config.trigger.config) =>
      getMetadata(store, arg[p].wf, arg[p].version[1]) = loc[p].metadata

\* C7 amended: the record read back has the name, version, namespace,
\* taskQueue, trigger type, deployedAt and checksum of the record given;
\* its deployedBy is the deployer (the logged-in user's email, else USER,
\* else USERNAME, else "unknown") and its trigger config is the JSON
\* round trip of the one given.
C7_MetadataRoundTripButDeployer ==
  \A p \in Procs :
    arg[p].kind = "deploy" /\ outcome[p] = "deployed" =>
      LET given == loc[p].metadata[1]
          read == getMetadata(store, arg[p].wf, arg[p].version[1])
      IN /\ read # Null
         /\ read[1] = [given EXCEPT
                         !.deployedBy = getDeployer(env),
                         !.trigger.config =
                            IF @ = Null THEN Null ELSE Some(StringifyConfig(@[1]))]
         /\ read[1].checksum = calculateChecksum(arg[p].bundle)

\* A completed upload by a logged-in user whose email is not $USER.
C7_Witness ==
  \E p \in Procs :
    /\ arg[p].kind = "deploy"
    /\ outcome[p] = "deployed"
    /\ getDeployer(env) # loc[p].metadata[1].deployedBy
    /\ getMetadata(store, arg[p].wf, arg[p].version[1]) # Null

\* The place of the latest the command read in the list it read (0: none).
CurrentIndex(p) ==
  IndexOf(loc[p].versions,
          IF loc[p].currentLatest = Null THEN <<>> ELSE loc[p].currentLatest[1])

\* The rollbacks without --version that ran to their end.
RollbackToPreviousEnded(p) ==
  /\ arg[p].kind = "rollback"
  /\ arg[p].version = Null
  /\ pc[p] = "idle"
  /\ outcome[p] # "failed"

C9_RollbackFallsBackToSecond ==
  \A p \in Procs :
    /\ RollbackToPreviousEnded(p)
    /\ Len(loc[p].versions) >= 2
    /\ CurrentIndex(p) \in {0, Len(loc[p].versions)}
    => /\ loc[p].newVersion = Some(loc[p].versions[2])
       /\ \/ /\ outcome[p] = "rolled back"
             /\ Pointer(store, arg[p].wf) = Some(loc[p].versions[2])
          \/ /\ outcome[p] = "already latest"
             /\ loc[p].currentLatest = Some(loc[p].versions[2])

\* A rollback from a pointer naming a version that is not listed.
C9_Witness ==
  \E p \in Procs :
    /\ RollbackToPreviousEnded(p)
    /\ Len(loc[p].versions) >= 2
    /\ loc[p].currentLatest # Null
    /\ CurrentIndex(p) = 0
    /\ outcome[p] = "rolled back"

\* C10: once a rollback has written the pointer, the pointer names a
\* version that has its bundle and its metadata.
C10_RollbackTargetExists ==
  \A p \in Procs :
    /\ arg[p].kind = "rollback"
    /\ pc[p] = "rollback_getMetadata" \/ outcome[p] = "rolled back"
    => LET v == Pointer(store, arg[p].wf)
       IN /\ v # Null
          /\ HasBundle(store, arg[p].wf, v[1])
          /\ HasMetadata(store, arg[p].wf, v[1])

\* The rollbacks to a named version that listVersions does not hold.
RollbackTargetNotListed(p) ==
  /\ arg[p].kind = "rollback"
  /\ arg[p].version # Null
  /\ arg[p].version[1] \notin CommonPrefixes(pre[p].store, arg[p].wf)

\* The commands that ran to their end.
Ended(p) == pc[p] = "idle" /\ outcome[p] # "failed"

\* C11 as claimed: a rollback to a named version that is not listed (some
\* other version being listed) ends with the message "version not found"
\* and leaves the bucket as it was.
C11_UnlistedTargetNotFound ==
  \A p \in Procs :
    /\ RollbackTargetNotListed(p)
    /\ Ended(p)
    /\ CommonPrefixes(pre[p].store, arg[p].wf) # {}
    => outcome[p] = "not found" /\ store = pre[p].store

\* C11 amended: a rollback to a named version that is not listed writes
\* nothing at any point and leaves the bucket as it was; it ends with "no
\* versions" when nothing is listed, with "only one version" when one
\* version is listed, and with "version not found" otherwise.
C11_UnlistedTargetRefused ==
  \A p \in Procs :
    RollbackTargetNotListed(p) =>
      /\ loc[p].writes = <<>>
      /\ store = pre[p].store
      /\ Ended(p) =>
           LET n == Cardinality(CommonPrefixes(pre[p].store, arg[p].wf))
           IN outcome[p] = IF n = 0 THEN "no versions"
                           ELSE IF n = 1 THEN "only one version"
                           ELSE "not found"

\* A rollback to a version that is not among the two or more listed.
C11_Witness ==
  \E p \in Procs :
    /\ RollbackTargetNotListed(p)
    /\ outcome[p] = "not found"
    /\ Cardinality(CommonPrefixes(pre[p].store, arg[p].wf)) >= 2
    /\ Pointer(store, arg[p].wf) # Null

\* C12: a rollback removes nothing, writes nothing but the pointer of its
\* workflow, and that at most once; every other object is, at every point
\* of the command, what it was when the command started.
C12_RollbackOnlyWritesPointer ==
  \A p \in Procs :
    arg[p].kind = "rollback" =>
      /\ loc[p].removes = <<>>
      /\ loc[p].writes \in {<<>>, <<LatestKey(arg[p].wf)>>}
      /\ \A k \in (DOMAIN store \cup DOMAIN pre[p].store) \ {LatestKey(arg[p].wf)} :
           SameObject(pre[p].store, store, k)

\* A rollback that moved the pointer from one listed version to another.
C12_Witness ==
  \E p \in Procs :
    /\ arg[p].kind = "rollback"
    /\ outcome[p] = "rolled back"
    /\ loc[p].writes = <<LatestKey(arg[p].wf)>>
    /\ Pointer(store, arg[p].wf) # Pointer(pre[p].store, arg[p].wf)
    /\ Pointer(pre[p].store, arg[p].wf) # Null

\* The command of process p read the pointer as it was stored (its
\* getLatestVersion request did not fail).
ReadPointer(p) == loc[p].currentLatest = getLatestVersion(pre[p].store, arg[p].wf)

\* C13: a rollback whose target, named or computed, is the version the
\* pointer holds writes nothing and ends with "already the latest" (the
\* pointer being read without failure).
C13_RollbackToLatestIsNoOp ==
  \A p \in Procs :
    /\ arg[p].kind = "rollback"
    /\ ReadPointer(p)
    /\ loc[p].newVersion # Null
    /\ loc[p].newVersion = Pointer(pre[p].store, arg[p].wf)
    => /\ loc[p].writes = <<>>
       /\ outcome[p] = "already latest"

\* The versions other than v that workflow w lists in bucket s, newest first.
Survivors(s, w, v) == SortReverse(CommonPrefixes(s, w) \ {v})

\* C14: a delete of the one version the pointer holds, another version
\* being listed, ends with the pointer holding the first of the versions
\* that remain (the pointer being read without failure).
C14_DeleteLatestRepairsToNewest ==
  \A p \in Procs :
    /\ arg[p].kind = "delete"
    /\ ~arg[p].all
    /\ arg[p].version # Null
    /\ Ended(p)
    /\ ReadPointer(p)
    /\ Pointer(pre[p].store, arg[p].wf) = arg[p].version
    /\ arg[p].version[1] \in CommonPrefixes(pre[p].store, arg[p].wf)
    /\ Survivors(pre[p].store, arg[p].wf, arg[p].version[1]) # <<>>
    => Pointer(store, arg[p].wf) =
         Some(Survivors(pre[p].store, arg[p].wf, arg[p].version[1])[1])

\* C17: after delete --all no version is listed, no object lies under any
\* version that was listed, the pointer is the object it was (the command
\* neither wrote nor removed it), getLatestVersion returns what it
\* returned before and getMetadata finds nothing for that version.
C17_DeleteAllLeavesPointer ==
  \A p \in Procs :
    arg[p].kind = "delete" /\ arg[p].all /\ outcome[p] = "deleted all" =>
      LET w == arg[p].wf IN
      /\ listVersions(store, w) = <<>>
      /\ \A k \in DOMAIN store : Len(k) = 2
      /\ SameObject(pre[p].store, store, LatestKey(w))
      /\ ~Includes(loc[p].writes, LatestKey(w))
      /\ ~Includes(loc[p].removes, LatestKey(w))
      /\ getLatestVersion(store, w) = getLatestVersion(pre[p].store, w)
      /\ getLatestVersion(store, w) # Null =>
           getMetadata(store, w, getLatestVersion(store, w)[1]) = Null

\* A delete --all of three versions, one of them the pointer's.
C17_Witness ==
  \E p \in Procs :
    /\ arg[p].kind = "delete"
    /\ arg[p].all
    /\ outcome[p] = "deleted all"
    /\ Len(loc[p].versions) = 3
    /\ Len(loc[p].removes) = 6
    /\ Pointer(store, arg[p].wf) # Null
    /\ Includes(loc[p].versions, Pointer(store, arg[p].wf)[1])

\* The versions under which workflow w has an object in bucket s.
VersionsWithObjects(s, w) == {k[2] : k \in {x \in DOMAIN s : Len(x) = 3 /\ x[1] = w}}

\* Sequence vs holds every member of S once, and nothing else.
Enumerates(vs, S) == {vs[i] : i \in 1..Len(vs)} = S /\ Len(vs) = Cardinality(S)

\* C15: at every point of a call of deleteVersion(w, v) every object but
\* the bundle and the metadata of version v of w is what it was when the
\* call started, and no object is new; when the call has returned those
\* two are gone, and listVersions(w) holds the versions it held before but v.
C15_DeleteVersionFrame ==
  \A p \in Procs :
    arg[p].kind = "deleteVersion" =>
      LET w == arg[p].wf
          v == arg[p].version[1]
          own == {BundleKey(w, v), MetadataKey(w, v)}
      IN /\ DOMAIN store \subseteq DOMAIN pre[p].store
         /\ \A k \in DOMAIN pre[p].store \ own : SameObject(pre[p].store, store, k)
         /\ outcome[p] = "deleted" =>
              /\ own \cap DOMAIN store = {}
              /\ Enumerates(listVersions(store, w),
                            {u \in VersionsWithObjects(pre[p].store, w) : u # Text("latest")} \ {v})

\* deleteVersion("orders", "1") has returned on a bucket that held "1" and
\* "1 " of orders, and "1" of orders2.
C15_Witness ==
  \E p \in Procs :
    /\ arg[p].kind = "deleteVersion"
    /\ arg[p].wf = "orders"
    /\ arg[p].version = Some(<<1>>)
    /\ outcome[p] = "deleted"
    /\ Len(loc[p].removes) = 2
    /\ HasBundle(store, "orders", <<1, SP>>)
    /\ HasBundle(store, "orders2", <<1>>)
    /\ LatestKey("orders") \in DOMAIN store

\* C16: a call of deleteVersion(w, v) that starts when no object lies
\* under v removes nothing, leaves the bucket as it is and returns (it
\* ends otherwise only when its listing request fails).
C16_DeleteVersionIdempotent ==
  \A p \in Procs :
    /\ arg[p].kind = "deleteVersion"
    /\ ~HasBundle(pre[p].store, arg[p].wf, arg[p].version[1])
    /\ ~HasMetadata(pre[p].store, arg[p].wf, arg[p].version[1])
    => /\ store = pre[p].store
       /\ loc[p].removes = <<>>
       /\ pc[p] = "idle" =>
            \/ outcome[p] = "deleted"
            \/ outcome[p] = "failed" /\ loc[p].failedAt = "deleteVersion_list"

\* The second call of deleteVersion("orders", "2") has returned: every
\* bucket holds "2" at the start, so a first call removed its objects.
C16_Witness ==
  \E p \in Procs :
    /\ arg[p].kind = "deleteVersion"
    /\ arg[p].wf = "orders"
    /\ arg[p].version = Some(<<2>>)
    /\ loc[p].id = 2
    /\ ~HasBundle(pre[p].store, "orders", <<2>>)
    /\ ~HasMetadata(pre[p].store, "orders", <<2>>)
    /\ outcome[p] = "deleted"

\* C18: a call of getMetadata whose requests do not fail returns null when
\* the metadata object is missing and when its content is no JSON text.
C18_GetMetadataNullIfUnreadable ==
  \A p \in Procs :
    LET k == MetadataKey(arg[p].wf, arg[p].version[1])
    IN /\ arg[p].kind = "getMetadata"
       /\ pc[p] = "idle"
       /\ loc[p].failedAt = "ok"
       /\ k \notin DOMAIN pre[p].store \/ JSONParseThrows(pre[p].store[k])
       => outcome[p] = "returned" /\ loc[p].metadata = Null

C20_ListVersionsExactDescending ==
  \A p \in Procs :
    arg[p].kind = "listVersions" /\ outcome[p] = "returned" =>
      LET vs == loc[p].versions
      IN /\ Enumerates(vs, VersionsWithObjects(pre[p].store, arg[p].wf) \ {Text("latest")})
         /\ \A i, j \in 1..Len(vs) : i < j => LexLess(vs[j], vs[i])

\* listVersions("orders") has returned "2", "1 ", "1" on a bucket that
\* holds a version named "latest" and the pointer.
C20_Witness ==
  \E p \in Procs :
    /\ arg[p].kind = "listVersions"
    /\ arg[p].wf = "orders"
    /\ outcome[p] = "returned"
    /\ loc[p].versions = <<<<2>>, <<1, SP>>, <<1>>>>
    /\ HasBundle(pre[p].store, "orders", Text("latest"))
    /\ LatestKey("orders") \in DOMAIN pre[p].store

\* The bundle and metadata keys of the version a call names.
OwnKeys(p) ==
  {BundleKey(arg[p].wf, arg[p].version[1]), MetadataKey(arg[p].wf, arg[p].version[1])}

\* C22: a call of deleteVersion that was interrupted has left in place,
\* as they were, the keys of the version it did not remove; a call that
\* has returned, on whatever keys of the version an earlier call left,
\* leaves no key of the version.
C22_InterruptedDeleteRetried ==
  \A p \in Procs :
    arg[p].kind = "deleteVersion" =>
      /\ outcome[p] = "failed" =>
           \A k \in OwnKeys(p) \cap DOMAIN pre[p].store :
             Includes(loc[p].removes, k) \/ SameObject(pre[p].store, store, k)
      /\ outcome[p] = "deleted" => OwnKeys(p) \cap DOMAIN store = {}

\* The second call of deleteVersion("orders", "2") has returned, the first
\* having been interrupted after it removed one of the two keys.
C22_Witness ==
  \E p \in Procs :
    /\ arg[p].kind = "deleteVersion"
    /\ arg[p].wf = "orders"
    /\ arg[p].version = Some(<<2>>)
    /\ loc[p].id = 2
    /\ Cardinality(OwnKeys(p) \cap DOMAIN pre[p].store) = 1
    /\ outcome[p] = "deleted"
    /\ OwnKeys(p) \cap DOMAIN store = {}

\* delete --version <v> of process p, and the condition under which its
\* code repairs the pointer: v is the latest the command read at its start
\* and the listing it read held more than one version.
DeleteSingle(p) ==
  arg[p].kind = "delete" /\ ~arg[p].all /\ arg[p].version # Null

RepairCondition(p) ==
  arg[p].version = loc[p].currentLatest /\ Len(loc[p].versions) > 1

\* C25: delete --version writes the pointer only when the deleted version
\* equals the latest it read at its start and it listed more than one
\* version, and then it does write it; otherwise, having ended, it has
\* left the pointer object as it was (for a sole version: naming the
\* deleted version); it never removes the pointer.
C25_DeleteSingleRepairsOnlyLatest ==
  \A p \in Procs :
    DeleteSingle(p) =>
      /\ ~Includes(loc[p].removes, LatestKey(arg[p].wf))
      /\ Includes(loc[p].writes, LatestKey(arg[p].wf)) => RepairCondition(p)
      /\ Ended(p) /\ outcome[p] \in {"deleted", "deleted, latest updated"} =>
           IF RepairCondition(p)
           THEN loc[p].writes = <<LatestKey(arg[p].wf)>>
           ELSE /\ loc[p].writes = <<>>
                /\ SameObject(pre[p].store, store, LatestKey(arg[p].wf))

\* A single delete of a version that was listed with others and was not
\* the latest read has ended; the pointer is what it was.
C25_Witness ==
  \E p \in Procs :
    /\ DeleteSingle(p) /\ Ended(p)
    /\ loc[p].removes # <<>>
    /\ Len(loc[p].versions) > 1
    /\ loc[p].currentLatest # Null
    /\ arg[p].version # loc[p].currentLatest
    /\ loc[p].writes = <<>>
    /\ Pointer(store, arg[p].wf) = Pointer(pre[p].store, arg[p].wf)

\* The checksum the metadata of version v records is the hash of the bundle
\* stored for v.
ChecksumMatches(s, w, v) ==
  getMetadata(s, w, v)[1].checksum = calculateChecksum(s[BundleKey(w, v)])

\* C28: after a forced redeploy that failed or was interrupted during its
\* upload, as in every other state, every version that has both a bundle
\* and a metadata object records in its metadata the hash of the bundle
\* stored for it.
C28_ChecksumMatchesBundle ==
  \A p \in Procs :
    UploadFailed(p) /\ arg[p].force =>
      \A w \in Workflows, v \in VersionIds :
        HasBundle(store, w, v) /\ HasMetadata(store, w, v) => ChecksumMatches(store, w, v)

\* The deploy of process p has made its conflict check.
PastConflictCheck(p) ==
  /\ arg[p].kind = "deploy"
  /\ pc[p] # "deploy_getLatest"
  /\ ~(outcome[p] = "failed" /\ loc[p].failedAt = "deploy_getLatest")

\* C29: a deploy whose requested version equals the content of the latest
\* pointer, force not being set, ends at its conflict check and has written
\* no object; every other deploy (no pointer, another version in it, or
\* force) goes on to the upload (the pointer being read without failure).
C29_ConflictCheckOnPointerOnly ==
  \A p \in Procs :
    PastConflictCheck(p) /\ DeployReadPointer(p) =>
      IF Pointer(pre[p].store, arg[p].wf) = arg[p].version /\ ~arg[p].force
      THEN /\ outcome[p] = "exists"
           /\ loc[p].writes = <<>>
           /\ store = pre[p].store
      ELSE InUpload(p) \/ outcome[p] = "deployed" \/ UploadFailed(p)

\* C30: after delete --all has ended on a workflow that had a latest
\* pointer, listWorkflows still returns the workflow's name, although no
\* version of it is listed; and in every state listWorkflows returns a
\* name exactly when some object lies under the name's prefix.
C30_DeleteAllKeepsWorkflowListed ==
  /\ \A p \in Procs :
       /\ arg[p].kind = "delete" /\ arg[p].all
       /\ outcome[p] = "deleted all"
       /\ Pointer(pre[p].store, arg[p].wf) # Null
       => Includes(listWorkflows(store), arg[p].wf)
  /\ \A w \in StoreWorkflows :
       Includes(listWorkflows(store), w) <=> \E k \in DOMAIN store : k[1] = w

\* delete --all has ended on a workflow that had versions and a pointer:
\* no version is listed, the pointer is the one object left.
C30_Witness ==
  \E p \in Procs :
    /\ arg[p].kind = "delete" /\ arg[p].all
    /\ outcome[p] = "deleted all"
    /\ Pointer(pre[p].store, arg[p].wf) # Null
    /\ listVersions(store, arg[p].wf) = <<>>
    /\ DOMAIN store = {LatestKey(arg[p].wf)}

\* The pointer of w holds a version id under which no metadata object
\* lies; and the same of the id getLatestVersion returns for the pointer.
DanglingPointer(s, w) ==
  Pointer(s, w) # Null /\ ~HasMetadata(s, w, Pointer(s, w)[1])

DanglingLatest(s, w) ==
  getLatestVersion(s, w) # Null /\ ~HasMetadata(s, w, getLatestVersion(s, w)[1])

C24_PointerNamesCompleteVersion ==
  (\A p \in Procs : pc[p] = "idle") =>
    \A w \in Workflows :
      listVersions(store, w) # <<>> /\ Pointer(store, w) # Null =>
        /\ HasBundle(store, w, Pointer(store, w)[1])
        /\ HasMetadata(store, w, Pointer(store, w)[1])

\* What the upload of invocation q puts at key k of its version.
ValueWritten(q, k) ==
  IF k = BundleKey(arg[q].wf, arg[q].version[1]) THEN arg[q].bundle
  ELSE IF k = MetadataKey(arg[q].wf, arg[q].version[1])
  THEN JSONStringify(enrichedMetadata(loc[q].metadata[1], env))
  ELSE arg[q].version[1]

\* Both invocations ran deploy, and both uploads have returned.
BothUploaded ==
  \A p \in Procs : arg[p].kind = "deploy" /\ outcome[p] = "deployed"

\* C23: after two uploads of the same version of the same workflow, their
\* writes interleaved in any order, each of bundle, metadata and pointer
\* holds what the invocation that wrote the key last put there, and the
\* pointer holds the version.
C23_SameVersionLastWriterWins ==
  BothUploaded /\ arg[1].wf = arg[2].wf /\ arg[1].version = arg[2].version =>
    LET w == arg[1].wf
        v == arg[1].version[1]
    IN /\ \A k \in {BundleKey(w, v), MetadataKey(w, v), LatestKey(w)} :
            /\ k \in DOMAIN store
            /\ \E q \in Procs : writer[k] = loc[q].id /\ store[k] = ValueWritten(q, k)
       /\ Pointer(store, w) = Some(v)

\* Both uploads of one version have returned, with different bundles; the
\* bundle is the one invocation's and the metadata the other's.
C23_Witness ==
  /\ BothUploaded /\ arg[1].wf = arg[2].wf /\ arg[1].version = arg[2].version
  /\ arg[1].bundle # arg[2].bundle
  /\ writer[BundleKey(arg[1].wf, arg[1].version[1])]
       # writer[MetadataKey(arg[1].wf, arg[1].version[1])]

\* C27: after two uploads of different versions of the same workflow,
\* their writes interleaved in any order, the pointer holds one of the two
\* versions, and that version's bundle and metadata are the ones the
\* invocation that uploaded it wrote.
C27_DifferentVersionsPointerComplete ==
  BothUploaded /\ arg[1].wf = arg[2].wf /\ arg[1].version # arg[2].version =>
    \E q \in Procs :
      LET w == arg[q].wf
          v == arg[q].version[1]
      IN /\ Pointer(store, w) = Some(v)
         /\ \A k \in {BundleKey(w, v), MetadataKey(w, v)} :
              /\ k \in DOMAIN store
              /\ writer[k] = loc[q].id
              /\ store[k] = ValueWritten(q, k)

\* Both uploads of different versions have returned; the invocation that
\* started first wrote the pointer last.
C27_Witness ==
  /\ BothUploaded /\ arg[1].wf = arg[2].wf /\ arg[1].version # arg[2].version
  /\ \E q \in Procs :
       /\ loc[q].id = 1
       /\ writer[LatestKey(arg[q].wf)] = 1
       /\ Pointer(store, arg[q].wf) = arg[q].version

\* Both invocations ran delete --version, of different versions of one
\* workflow, each made its reads before the other removed anything, and
\* both have deleted their version and returned.
BothDeleted ==
  /\ \A p \in Procs :
       /\ DeleteSingle(p)
       /\ loc[p].readFirst
       /\ outcome[p] \in {"deleted", "deleted, latest updated"}
  /\ arg[1].wf = arg[2].wf
  /\ arg[1].version # arg[2].version

\* C26: after two interleaved deletes of different versions of one
\* workflow, both having read the listing and the pointer before either
\* removed an object, if a version is still listed then the pointer names
\* a version that is still listed.
C26_ConcurrentDeletesKeepPointerListed ==
  BothDeleted =>
    LET w == arg[1].wf IN
    listVersions(store, w) # <<>> =>
      /\ Pointer(store, w) # Null
      /\ Includes(listVersions(store, w), Pointer(store, w)[1])

====
